---------------------------- MODULE Spec2Model ----------------------------
(***************************************************************************)
(* Model of src/server.js: an express gateway with wallet endpoints and    *)
(* three market-data endpoints (/eth-price, /eth-market,                   *)
(* /eth-market-analyze) that aggregate two REST providers (CoinGecko,      *)
(* CoinMarketCap) and a text-generation API (Gemini).                      *)
(*                                                                         *)
(* A handler is modelled as the sequence of its run-to-completion          *)
(* segments: one action per stretch of code between two awaits.  What a    *)
(* provider answers is part of the environment, fixed in the initial       *)
(* state and ranging over every reply shape the handlers distinguish.      *)
(*                                                                         *)
(* A JavaScript value that may be undefined is a sequence of length at     *)
(* most one: << >> is undefined, <<v>> is the value v.  A percentage is an *)
(* integer number of half percents (Pct(2) is 2%).  An ISO-8601 string is  *)
(* the pair <<seconds, milliseconds>>.                                     *)
(***************************************************************************)
EXTENDS Integers, Sequences, FiniteSets, TLC

VARIABLES
    CMC_API_KEY,     \* process.env.CMC_API_KEY || '' ("" when not configured)
    GEMINI_API_KEY,  \* process.env.GEMINI_API_KEY ("" when not configured)
    PRIVATE_KEY,     \* process.env.PRIVATE_KEY: << >> or <<key>>
    cgPrice,         \* what CoinGecko /simple/price answers (price only)
    cgMarket,        \* what CoinGecko /simple/price answers (market fields)
    cmcQuote,        \* what CoinMarketCap /cryptocurrency/quotes/latest answers
    gemini,          \* what Gemini generateContent answers
    pricePc,         \* /eth-price: "idle", "awaitAll", "responded"
    pricePromises,   \* /eth-price: the lookups started, in push order
    lookup,          \* /eth-price: source -> "notStarted" | "pending" | "settled"
    settled,         \* /eth-price: the sources in the order their lookups settled
    result,          \* /eth-price: the result object {prices, lastUpdated, errors}
    priceRes,        \* /eth-price: responses sent on res
    marketPc,        \* /eth-market: "idle", "awaitCG", "awaitCMC", "responded"
    marketErrors,    \* /eth-market: const errors
    marketCalls,     \* /eth-market: the provider requests issued, in order
    marketRes,       \* /eth-market: responses sent on res
    analyzePc,       \* /eth-market-analyze: "idle", "awaitCG", "awaitCMC", "awaitGemini", "responded"
    marketData,      \* /eth-market-analyze: let marketData (<< >> is null)
    analyzeErrors,   \* /eth-market-analyze: const errors
    analyzeCalls,    \* /eth-market-analyze: the requests issued, in order
    analyzeRes,      \* /eth-market-analyze: responses sent on res
    sendPc,          \* /send: "idle", "awaitSend", "awaitWait", "responded"
    sendBody,        \* /send: req.body
    sendTx,          \* /send: const tx (<< >> before sendTransaction resolves)
    broadcast,       \* /send: the transactions the RPC provider accepted, in order
    txWait,          \* /send: the promise of tx.wait(): "none", "pending", "resolved", "rejected"
    sendRes          \* /send: responses sent on res

envVars     == <<CMC_API_KEY, GEMINI_API_KEY, PRIVATE_KEY, cgPrice, cgMarket, cmcQuote, gemini>>
priceVars   == <<pricePc, pricePromises, lookup, settled, result, priceRes>>
marketVars  == <<marketPc, marketErrors, marketCalls, marketRes>>
analyzeVars == <<analyzePc, marketData, analyzeErrors, analyzeCalls, analyzeRes>>
sendVars    == <<sendPc, sendBody, sendTx, broadcast, txWait, sendRes>>
vars        == <<envVars, priceVars, marketVars, analyzeVars, sendVars>>

----------------------------------------------------------------------------
(* Values *)

\* The largest 24h change the providers report, in half percents.
MaxHalfPct == 7

Undefined == << >>
Some(v)   == <<v>>
IsDefined(v) == v # << >>
\* JavaScript truthiness of an optional number.
Truthy(v)    == v # << >> /\ v[1] # 0

\* n percent, in half percents.
Pct(n) == 2 * n

Changes == (0 - MaxHalfPct) .. MaxHalfPct

\* new Date(ms).toISOString() and Date.parse(iso)
toISOString(ms) == <<ms \div 1000, ms % 1000>>
DateParse(iso)  == iso[1] * 1000 + iso[2]

\* new Date() of the request
Now == 17250

AxiosErrors == {"timeout of 10000ms exceeded", "Request failed with status code 429"}
GeminiErrors == {"timeout of 15000ms exceeded", "Request failed with status code 400"}
InvalidTime == "Invalid time value"
NoUSD       == "Cannot read properties of undefined (reading 'USD')"
NoToFixed   == "Cannot read properties of undefined (reading 'toFixed')"
NoLocale    == "Cannot read properties of undefined (reading 'toLocaleString')"
NoText      == "Cannot read properties of undefined (reading 'text')"

----------------------------------------------------------------------------
(* Provider replies: an axios promise rejects with an error message or     *)
(* resolves with a body.                                                   *)

CGReply(kind, message, hasEthereum, usd, cap, vol, change, at) ==
    [kind |-> kind, message |-> message, hasEthereum |-> hasEthereum, usd |-> usd,
     usd_market_cap |-> cap, usd_24h_vol |-> vol, usd_24h_change |-> change,
     last_updated_at |-> at]

CGRejects == {CGReply("reject", m, FALSE, Undefined, Undefined, Undefined, Undefined, Undefined) :
                m \in AxiosErrors}
CGEmpty   == CGReply("resolve", "", FALSE, Undefined, Undefined, Undefined, Undefined, Undefined)

\* /simple/price?ids=ethereum&vs_currencies=usd
CGPriceReplies ==
    CGRejects \cup {CGEmpty} \cup
    {CGReply("resolve", "", TRUE, usd, Undefined, Undefined, Undefined, Undefined) :
        usd \in {Undefined, Some(0), Some(3000)}}

\* ...&include_market_cap=true&include_24hr_vol=true&include_24hr_change=true&include_last_updated_at=true
CGMarketReplies ==
    CGRejects \cup {CGEmpty} \cup
    {CGReply("resolve", "", TRUE, Some(3000), Some(360), Some(12), Some(c), Some(17)) :
        c \in Changes} \cup
    {CGReply("resolve", "", TRUE, Undefined, Some(360), Some(12), Some(1), Some(17)),
     CGReply("resolve", "", TRUE, Some(3000), Some(360), Some(12), Undefined, Some(17)),
     CGReply("resolve", "", TRUE, Some(3000), Some(360), Some(12), Some(1), Undefined)}

CMCReply(kind, message, hasETH, hasQuote, price, cap, vol, change, updated) ==
    [kind |-> kind, message |-> message, hasETH |-> hasETH, hasQuote |-> hasQuote,
     price |-> price, market_cap |-> cap, volume_24h |-> vol,
     percent_change_24h |-> change, last_updated |-> updated]

CMCRejects == {CMCReply("reject", m, FALSE, FALSE, Undefined, Undefined, Undefined, Undefined, Undefined) :
                m \in AxiosErrors}
CMCEmpty   == CMCReply("resolve", "", FALSE, FALSE, Undefined, Undefined, Undefined, Undefined, Undefined)
CMCNoQuote == CMCReply("resolve", "", TRUE, FALSE, Undefined, Undefined, Undefined, Undefined, Undefined)
CMCPartial ==
    {CMCReply("resolve", "", TRUE, TRUE, Undefined, Some(361), Some(13), Some(1), Some(<<17, 250>>)),
     CMCReply("resolve", "", TRUE, TRUE, Some(3001), Some(361), Some(13), Undefined, Some(<<17, 250>>)),
     CMCReply("resolve", "", TRUE, TRUE, Some(3001), Some(361), Some(13), Some(1), Undefined)}
CMCFull(cs) ==
    {CMCReply("resolve", "", TRUE, TRUE, Some(3001), Some(361), Some(13), Some(c), Some(<<17, 250>>)) :
        c \in cs}

CMCReplies      == CMCRejects \cup {CMCEmpty, CMCNoQuote} \cup CMCPartial \cup CMCFull(Changes)
CMCPriceReplies == CMCRejects \cup {CMCEmpty, CMCNoQuote} \cup CMCPartial \cup CMCFull({1})

Sources == {"coinmarketcap", "coingecko"}

\* res.json(x) / res.status(s).json(x)
Response(status, body) == [status |-> status, body |-> body]

\* JSON.stringify of an object drops the keys whose value is undefined.
Json(obj) == [k \in {x \in DOMAIN obj : obj[x] # Undefined} |-> obj[k]]

----------------------------------------------------------------------------
(* GET /eth-price *)

NoPriceData == "No real-time price data available. APIs may be down or rate-limited."

\* result.prices[src] = value
SetPrice(r, src, value) ==
    [r EXCEPT !.prices = [k \in DOMAIN r.prices \cup {src} |->
                            IF k = src THEN value ELSE r.prices[k]]]
\* result.errors.push(message)
PushError(r, message) == [r EXCEPT !.errors = Append(r.errors, message)]

\* The .then and .catch callbacks of cmcPromise.
CmcPriceSettle(r, reply) ==
    IF reply.kind = "reject" THEN PushError(r, "CoinMarketCap: " \o reply.message)
    ELSE IF reply.hasETH
         THEN IF reply.hasQuote THEN SetPrice(r, "coinmarketcap", reply.price)
              ELSE PushError(r, "CoinMarketCap: " \o NoUSD)
         ELSE r

\* The .then and .catch callbacks of cgPromise.
CgPriceSettle(r, reply) ==
    IF reply.kind = "reject" THEN PushError(r, "CoinGecko: " \o reply.message)
    ELSE IF reply.hasEthereum /\ Truthy(reply.usd)
         THEN SetPrice(r, "coingecko", reply.usd)
         ELSE r

\* The handler up to await Promise.allSettled(pricePromises).
PriceRequest ==
    /\ pricePc = "idle"
    /\ result' = [prices |-> << >>, lastUpdated |-> toISOString(Now), errors |-> << >>]
    /\ pricePromises' = IF CMC_API_KEY # "" THEN <<"coinmarketcap", "coingecko">>
                        ELSE <<"coingecko">>
    /\ lookup' = [s \in Sources |->
                    IF s = "coingecko" \/ CMC_API_KEY # "" THEN "pending" ELSE "notStarted"]
    /\ pricePc' = "awaitAll"
    /\ UNCHANGED <<settled, priceRes>>

CmcPriceSettles ==
    /\ lookup["coinmarketcap"] = "pending"
    /\ result' = CmcPriceSettle(result, cmcQuote)
    /\ lookup' = [lookup EXCEPT !["coinmarketcap"] = "settled"]
    /\ settled' = Append(settled, "coinmarketcap")
    /\ UNCHANGED <<pricePc, pricePromises, priceRes>>

CgPriceSettles ==
    /\ lookup["coingecko"] = "pending"
    /\ result' = CgPriceSettle(result, cgPrice)
    /\ lookup' = [lookup EXCEPT !["coingecko"] = "settled"]
    /\ settled' = Append(settled, "coingecko")
    /\ UNCHANGED <<pricePc, pricePromises, priceRes>>

\* A race instead of a join: resumes when any one lookup has settled.
AnySettled(promises, state) == \E i \in 1..Len(promises) : state[promises[i]] = "settled"

\* Promise.allSettled(promises) has resolved.
AllSettled(promises, state) == \A i \in 1..Len(promises) : state[promises[i]] = "settled"

\* The handler after the await.
PriceComposed(r) ==
    IF Cardinality(DOMAIN r.prices) = 0
    THEN Response(503, [error |-> NoPriceData, errors |-> r.errors])
    ELSE Response(200, [r EXCEPT !.prices = Json(r.prices)])

PriceRespond ==
    /\ pricePc = "awaitAll"
    /\ AllSettled(pricePromises, lookup)
    /\ priceRes' = Append(priceRes, PriceComposed(result))
    /\ pricePc' = "responded"
    /\ UNCHANGED <<pricePromises, lookup, settled, result>>

PriceIdle ==
    /\ pricePc = "idle"
    /\ pricePromises = << >>
    /\ lookup = [s \in Sources |-> "notStarted"]
    /\ settled = << >>
    /\ result = [prices |-> << >>, lastUpdated |-> toISOString(0), errors |-> << >>]
    /\ priceRes = << >>

----------------------------------------------------------------------------
(* GET /eth-market *)

NoMarketData == "No real-time market data available. APIs may be down or rate-limited."

\* What one provider attempt of a fallback chain comes to: a snapshot, a thrown
\* error (caught by the attempt's catch), or neither (the reply's if was false).
Snapshot(m) == [kind |-> "snapshot", market |-> Some(m), message |-> ""]
Thrown(msg) == [kind |-> "throw", market |-> Undefined, message |-> msg]
Nothing     == [kind |-> "nothing", market |-> Undefined, message |-> ""]

\* The body of the try block around the CoinGecko request.
MarketCgAttempt(reply) ==
    IF reply.kind = "reject" THEN Thrown(reply.message)
    ELSE IF reply.hasEthereum
         THEN IF IsDefined(reply.last_updated_at)
              THEN Snapshot([name |-> "Ethereum", symbol |-> "ETH",
                             price |-> reply.usd,
                             market_cap |-> reply.usd_market_cap,
                             volume_24h |-> reply.usd_24h_vol,
                             price_change_24h |-> reply.usd_24h_change,
                             last_updated |-> toISOString(reply.last_updated_at[1] * 1000),
                             source |-> "coingecko"])
              ELSE Thrown(InvalidTime)
         ELSE Nothing

\* The body of the try block around the CoinMarketCap request.
MarketCmcAttempt(reply) ==
    IF reply.kind = "reject" THEN Thrown(reply.message)
    ELSE IF reply.hasETH
         THEN IF ~reply.hasQuote THEN Thrown(NoUSD)
              ELSE IF IsDefined(reply.last_updated)
              THEN Snapshot([name |-> "Ethereum", symbol |-> "ETH",
                             price |-> reply.price,
                             market_cap |-> reply.market_cap,
                             volume_24h |-> reply.volume_24h,
                             price_change_24h |-> reply.percent_change_24h,
                             last_updated |-> toISOString(DateParse(reply.last_updated[1])),
                             source |-> "coinmarketcap"])
              ELSE Thrown(InvalidTime)
         ELSE Nothing

\* A chain that goes on to the second provider whatever the first attempt gave.
MarketTriesCmc_Always(attempt) == CMC_API_KEY # ""

\* After the CoinGecko attempt: return res.json(market) ends the handler;
\* otherwise if (CMC_API_KEY) decides whether CoinMarketCap is tried.
MarketTriesCmc(attempt) == attempt.kind # "snapshot" /\ CMC_API_KEY # ""

MarketRequest ==
    /\ marketPc = "idle"
    /\ marketErrors' = << >>
    /\ marketCalls' = <<"coingecko">>
    /\ marketPc' = "awaitCG"
    /\ UNCHANGED marketRes

MarketCgSettles ==
    /\ marketPc = "awaitCG"
    /\ LET attempt == MarketCgAttempt(cgMarket)
           errors  == IF attempt.kind = "throw"
                      THEN Append(marketErrors, "CoinGecko: " \o attempt.message)
                      ELSE marketErrors
       IN  /\ marketErrors' = errors
           /\ marketRes' = IF attempt.kind = "snapshot"
                           THEN Append(marketRes, Response(200, attempt.market[1]))
                           ELSE IF MarketTriesCmc(attempt) THEN marketRes
                           ELSE Append(marketRes,
                                       Response(503, [error |-> NoMarketData, errors |-> errors]))
           /\ marketCalls' = IF MarketTriesCmc(attempt)
                             THEN Append(marketCalls, "coinmarketcap") ELSE marketCalls
           /\ marketPc' = IF MarketTriesCmc(attempt) THEN "awaitCMC" ELSE "responded"

MarketCmcSettles ==
    /\ marketPc = "awaitCMC"
    /\ LET attempt == MarketCmcAttempt(cmcQuote)
           errors  == IF attempt.kind = "throw"
                      THEN Append(marketErrors, "CoinMarketCap: " \o attempt.message)
                      ELSE marketErrors
       IN  /\ marketErrors' = errors
           /\ marketRes' = IF attempt.kind = "snapshot"
                           THEN Append(marketRes, Response(200, attempt.market[1]))
                           ELSE Append(marketRes,
                                       Response(503, [error |-> NoMarketData, errors |-> errors]))
           /\ marketPc' = "responded"
           /\ UNCHANGED marketCalls

MarketIdle ==
    /\ marketPc = "idle"
    /\ marketErrors = << >>
    /\ marketCalls = << >>
    /\ marketRes = << >>

----------------------------------------------------------------------------
(* GET /eth-market-analyze *)

NoAnalysisData == "No real-time market data available for analysis. APIs may be down or rate-limited."
NoGeminiKey    == "No Gemini API key provided. Please add GEMINI_API_KEY to your .env file to get AI analysis."
NotAvailable   == "Analysis not available from Gemini API response"
Bullish        == "Ethereum shows bullish momentum with significant price increase over 24h."
ModestGain     == "Ethereum shows modest gains with slightly positive momentum."
MinorBearish   == "Ethereum shows minor bearish sentiment with a slight price decrease."
NotableBearish == "Ethereum shows notable bearish momentum with significant price decline."
Disclaimer     == " (This is a basic fallback analysis as Gemini API request failed)"

\* What Gemini answers: a rejection, or a body with a candidate text, with no
\* candidates, or with a candidate whose parts array is empty.
GeminiReply(kind, message, shape, text) ==
    [kind |-> kind, message |-> message, shape |-> shape, text |-> text]
GeminiReplies ==
    {GeminiReply("reject", m, "none", "") : m \in GeminiErrors} \cup
    {GeminiReply("resolve", "", "text", "ETH is steady."),
     GeminiReply("resolve", "", "noCandidates", ""),
     GeminiReply("resolve", "", "noParts", "")}

\* The body of the try block around the CoinGecko request: marketData is
\* assigned only if the object literal was built.
AnalyzeCgAttempt(reply) ==
    IF reply.kind = "reject" THEN Thrown(reply.message)
    ELSE IF reply.hasEthereum
         THEN IF IsDefined(reply.last_updated_at)
              THEN Snapshot([name |-> "Ethereum", symbol |-> "ETH",
                             price |-> reply.usd,
                             market_cap |-> reply.usd_market_cap,
                             volume_24h |-> reply.usd_24h_vol,
                             price_change_24h |-> reply.usd_24h_change,
                             last_updated |-> toISOString(reply.last_updated_at[1] * 1000),
                             source |-> "coingecko"])
              ELSE Thrown(InvalidTime)
         ELSE Nothing

\* The body of the try block around the CoinMarketCap request.
AnalyzeCmcAttempt(reply) ==
    IF reply.kind = "reject" THEN Thrown(reply.message)
    ELSE IF reply.hasETH
         THEN IF ~reply.hasQuote THEN Thrown(NoUSD)
              ELSE IF IsDefined(reply.last_updated)
              THEN Snapshot([name |-> "Ethereum", symbol |-> "ETH",
                             price |-> reply.price,
                             market_cap |-> reply.market_cap,
                             volume_24h |-> reply.volume_24h,
                             price_change_24h |-> reply.percent_change_24h,
                             last_updated |-> toISOString(DateParse(reply.last_updated[1])),
                             source |-> "coinmarketcap"])
              ELSE Thrown(InvalidTime)
         ELSE Nothing

\* A chain that asks CoinMarketCap whenever a key is configured.
AnalyzeTriesCmc_Always(md) == CMC_API_KEY # ""

\* if (!marketData && CMC_API_KEY)
AnalyzeTriesCmc(md) == md = Undefined /\ CMC_API_KEY # ""

\* Thresholds that count the boundary values with the class above.
FallbackSentence_Inclusive(change) ==
    IF IsDefined(change) /\ change[1] >= Pct(2) THEN Bullish
    ELSE IF IsDefined(change) /\ change[1] >= Pct(0) THEN ModestGain
    ELSE IF IsDefined(change) /\ change[1] >= Pct(-2) THEN MinorBearish
    ELSE NotableBearish

\* The if/else chain of the catch block; a comparison with undefined is false.
FallbackSentence(change) ==
    IF IsDefined(change) /\ change[1] > Pct(2) THEN Bullish
    ELSE IF IsDefined(change) /\ change[1] > Pct(0) THEN ModestGain
    ELSE IF IsDefined(change) /\ change[1] > Pct(-2) THEN MinorBearish
    ELSE NotableBearish

Analysis(text, source, basedOn) == [text |-> text, source |-> source, basedOn |-> basedOn]
AnalyzeBody(md, analysis, error) == [market |-> md, analysis |-> analysis, error |-> error]

\* The catch block of the Gemini try: the fallback response.
FallbackResponse(md, message) ==
    Response(200, AnalyzeBody(md,
        Analysis(FallbackSentence(md.price_change_24h) \o Disclaimer,
                 Some("fallback"), Some("real-time-data")),
        Some("Gemini API error: " \o message)))

\* The template literal of the prompt: the first member access on an
\* undefined field throws (<< >> when the prompt is built).
PromptError(md) ==
    IF ~IsDefined(md.price) THEN Some(NoLocale)
    ELSE IF ~IsDefined(md.price_change_24h) THEN Some(NoToFixed)
    ELSE IF ~IsDefined(md.market_cap) THEN Some(NoLocale)
    ELSE IF ~IsDefined(md.volume_24h) THEN Some(NoLocale)
    ELSE Undefined

\* A handler that posts to Gemini without looking at the key.
GeminiKeyMissing_Ignored == FALSE

\* if (!geminiApiKey)
GeminiKeyMissing == GEMINI_API_KEY = ""

\* A prompt built before the Gemini try block: its error reaches the outer catch.
PromptFailure_Outer(md, message) ==
    Response(500, [error |-> "Failed to analyze Ethereum data: " \o message])

\* The prompt is built inside the Gemini try block: its error reaches that
\* block's catch.
PromptFailure(md, message) == FallbackResponse(md, message)

\* From if (!marketData) to the Gemini request: the response sent, if any.
AnalyzeAfterSnapshot(md, errors) ==
    IF md = Undefined
    THEN Some(Response(503, [error |-> NoAnalysisData, errors |-> errors]))
    ELSE IF GeminiKeyMissing
    THEN Some(Response(200, AnalyzeBody(md[1],
                  Analysis(NoGeminiKey, Undefined, Undefined), Undefined)))
    ELSE IF IsDefined(PromptError(md[1]))
    THEN Some(PromptFailure(md[1], PromptError(md[1])[1]))
    ELSE Undefined

\* The handler from a settled snapshot chain on.
AnalyzeContinue(md, errors) ==
    LET sent == AnalyzeAfterSnapshot(md, errors)
    IN  /\ analyzeRes' = analyzeRes \o sent
        /\ analyzeCalls' = IF IsDefined(sent) THEN analyzeCalls
                           ELSE Append(analyzeCalls, "gemini")
        /\ analyzePc' = IF IsDefined(sent) THEN "responded" ELSE "awaitGemini"

AnalyzeRequest ==
    /\ analyzePc = "idle"
    /\ marketData' = Undefined
    /\ analyzeErrors' = << >>
    /\ analyzeCalls' = <<"coingecko">>
    /\ analyzePc' = "awaitCG"
    /\ UNCHANGED analyzeRes

AnalyzeCgSettles ==
    /\ analyzePc = "awaitCG"
    /\ LET attempt == AnalyzeCgAttempt(cgMarket)
           errors  == IF attempt.kind = "throw"
                      THEN Append(analyzeErrors, "CoinGecko: " \o attempt.message)
                      ELSE analyzeErrors
       IN  /\ marketData' = attempt.market
           /\ analyzeErrors' = errors
           /\ IF AnalyzeTriesCmc(attempt.market)
              THEN /\ analyzeCalls' = Append(analyzeCalls, "coinmarketcap")
                   /\ analyzePc' = "awaitCMC"
                   /\ UNCHANGED analyzeRes
              ELSE AnalyzeContinue(attempt.market, errors)

AnalyzeCmcSettles ==
    /\ analyzePc = "awaitCMC"
    /\ LET attempt == AnalyzeCmcAttempt(cmcQuote)
           errors  == IF attempt.kind = "throw"
                      THEN Append(analyzeErrors, "CoinMarketCap: " \o attempt.message)
                      ELSE analyzeErrors
           md      == IF attempt.kind = "snapshot" THEN attempt.market ELSE marketData
       IN  /\ marketData' = md
           /\ analyzeErrors' = errors
           /\ AnalyzeContinue(md, errors)

\* From the resolution of axios.post to the response.
GeminiResponse(md, reply) ==
    IF reply.kind = "reject" THEN FallbackResponse(md, reply.message)
    ELSE IF reply.shape = "noParts" THEN FallbackResponse(md, NoText)
    ELSE Response(200, AnalyzeBody(md,
             Analysis(IF reply.shape = "text" THEN reply.text ELSE NotAvailable,
                      Some("gemini"), Some("real-time-data")),
             Undefined))

AnalyzeGeminiSettles ==
    /\ analyzePc = "awaitGemini"
    /\ analyzeRes' = Append(analyzeRes, GeminiResponse(marketData[1], gemini))
    /\ analyzePc' = "responded"
    /\ UNCHANGED <<marketData, analyzeErrors, analyzeCalls>>

AnalyzeIdle ==
    /\ analyzePc = "idle"
    /\ marketData = Undefined
    /\ analyzeErrors = << >>
    /\ analyzeCalls = << >>
    /\ analyzeRes = << >>

----------------------------------------------------------------------------
(* POST /send *)

NETWORKS == [sepolia |-> "SEPOLIA_URL", mainnet |-> "MAINNET_URL"]

\* new ethers.JsonRpcProvider(NETWORKS[network] || NETWORKS.sepolia)
getProvider(network) ==
    IF IsDefined(network) /\ network[1] \in DOMAIN NETWORKS
    THEN NETWORKS[network[1]] ELSE NETWORKS.sepolia

ValidKeys      == {"0xkey1", "0xdefault"}
ValidAddresses == {"0xrecipient"}

\* new ethers.Wallet(key, provider): the key's error, << >> when it is accepted.
WalletError(key) ==
    IF IsDefined(key) /\ key[1] \in ValidKeys THEN Undefined ELSE Some("invalid private key")

\* ethers.parseEther(value), in units of 10^17 wei; << >> when it throws.
parseEther(value) ==
    IF value = Some("0.1") THEN Some(1)
    ELSE IF value = Some("1.5") THEN Some(15)
    ELSE Undefined

\* fromPrivateKey || process.env.PRIVATE_KEY
SigningKey(body) == IF IsDefined(body.fromPrivateKey) THEN body.fromPrivateKey ELSE PRIVATE_KEY

\* What wallet.sendTransaction rejects with before anything is broadcast.
SendErrors == {"insufficient funds for intrinsic transaction cost", "could not detect network"}
\* What tx.wait() rejects with.
WaitErrors == {"transaction execution reverted", "could not coalesce error"}

SendBodies ==
    [fromPrivateKey : {Undefined, Some("0xkey1"), Some("nokey")},
     to             : {"0xrecipient", "nowhere"},
     value          : {Undefined, Some("0.1"), Some("1.5"), Some("abc")},
     network        : {Undefined, Some("sepolia"), Some("mainnet"), Some("goerli")}]

\* The handler up to await wallet.sendTransaction(...).
SendRequest ==
    /\ sendPc = "idle"
    /\ LET key == SigningKey(sendBody)
       IN  IF IsDefined(WalletError(key))
           THEN /\ sendRes' = Append(sendRes, Response(400, [error |-> WalletError(key)[1]]))
                /\ sendPc' = "responded"
           ELSE IF ~IsDefined(parseEther(sendBody.value))
           THEN /\ sendRes' = Append(sendRes, Response(400, [error |-> "invalid value"]))
                /\ sendPc' = "responded"
           ELSE /\ sendPc' = "awaitSend"
                /\ UNCHANGED sendRes
    /\ UNCHANGED <<sendBody, sendTx, broadcast, txWait>>

\* A handler that answers as soon as the transaction is broadcast.
AfterBroadcast_NoWait(tx) ==
    /\ sendRes' = Append(sendRes, Response(200, [hash |-> tx.hash]))
    /\ sendPc' = "responded"
    /\ UNCHANGED txWait

\* const tx = await wallet.sendTransaction(...) resolved: await tx.wait().
AfterBroadcast(tx) ==
    /\ txWait' = "pending"
    /\ sendPc' = "awaitWait"
    /\ UNCHANGED sendRes

\* wallet.sendTransaction settles: it rejects (a bad recipient always does)
\* and nothing was broadcast, or the provider accepted the transaction.
SendTransactionSettles ==
    /\ sendPc = "awaitSend"
    /\ \/ /\ \E e \in (IF sendBody.to \in ValidAddresses THEN SendErrors
                       ELSE {"invalid address"}) :
                sendRes' = Append(sendRes, Response(400, [error |-> e]))
          /\ sendPc' = "responded"
          /\ UNCHANGED <<sendTx, broadcast, txWait>>
       \/ /\ sendBody.to \in ValidAddresses
          /\ LET tx == [hash  |-> <<"tx", SigningKey(sendBody)[1], sendBody.to>>,
                        to    |-> sendBody.to,
                        value |-> parseEther(sendBody.value)[1],
                        rpc   |-> getProvider(sendBody.network)]
             IN  /\ sendTx' = Some(tx)
                 /\ broadcast' = Append(broadcast, tx)
                 /\ AfterBroadcast(tx)
    /\ UNCHANGED sendBody

\* tx.wait() settles: the transaction was mined, or the wait rejects.
WaitSettles ==
    /\ sendPc = "awaitWait"
    /\ \/ /\ txWait' = "resolved"
          /\ sendRes' = Append(sendRes, Response(200, [hash |-> sendTx[1].hash]))
       \/ /\ txWait' = "rejected"
          /\ \E e \in WaitErrors : sendRes' = Append(sendRes, Response(400, [error |-> e]))
    /\ sendPc' = "responded"
    /\ UNCHANGED <<sendBody, sendTx, broadcast>>

SendIdle ==
    /\ sendPc = "idle"
    /\ sendTx = Undefined
    /\ broadcast = << >>
    /\ txWait = "none"
    /\ sendRes = << >>

----------------------------------------------------------------------------
(* Specifications: one per group of handlers, each over every environment  *)
(* its handlers read.  The handlers share no state, so the requests of     *)
(* one group are not affected by those of another.                         *)

AllIdle == PriceIdle /\ MarketIdle /\ AnalyzeIdle /\ SendIdle

InitPrice ==
    /\ CMC_API_KEY \in {"", "cmc-key"}
    /\ cgPrice \in CGPriceReplies
    /\ cmcQuote \in CMCPriceReplies
    /\ GEMINI_API_KEY = ""
    /\ PRIVATE_KEY = Undefined
    /\ cgMarket = CGEmpty
    /\ gemini = GeminiReply("resolve", "", "noCandidates", "")
    /\ sendBody = [fromPrivateKey |-> Undefined, to |-> "nowhere",
                   value |-> Undefined, network |-> Undefined]
    /\ AllIdle

NextPrice ==
    \/ PriceRequest /\ UNCHANGED <<envVars, marketVars, analyzeVars, sendVars>>
    \/ CmcPriceSettles /\ UNCHANGED <<envVars, marketVars, analyzeVars, sendVars>>
    \/ CgPriceSettles /\ UNCHANGED <<envVars, marketVars, analyzeVars, sendVars>>
    \/ PriceRespond /\ UNCHANGED <<envVars, marketVars, analyzeVars, sendVars>>

SpecPrice == InitPrice /\ [][NextPrice]_vars

InitMarket ==
    /\ CMC_API_KEY \in {"", "cmc-key"}
    /\ GEMINI_API_KEY \in {"", "gemini-key"}
    /\ cgMarket \in CGMarketReplies
    /\ cmcQuote \in CMCReplies
    /\ gemini \in GeminiReplies
    /\ PRIVATE_KEY = Undefined
    /\ cgPrice = CGEmpty
    /\ sendBody = [fromPrivateKey |-> Undefined, to |-> "nowhere",
                   value |-> Undefined, network |-> Undefined]
    /\ AllIdle

NextMarket ==
    \/ MarketRequest /\ UNCHANGED <<envVars, priceVars, analyzeVars, sendVars>>
    \/ MarketCgSettles /\ UNCHANGED <<envVars, priceVars, analyzeVars, sendVars>>
    \/ MarketCmcSettles /\ UNCHANGED <<envVars, priceVars, analyzeVars, sendVars>>
    \/ AnalyzeRequest /\ UNCHANGED <<envVars, priceVars, marketVars, sendVars>>
    \/ AnalyzeCgSettles /\ UNCHANGED <<envVars, priceVars, marketVars, sendVars>>
    \/ AnalyzeCmcSettles /\ UNCHANGED <<envVars, priceVars, marketVars, sendVars>>
    \/ AnalyzeGeminiSettles /\ UNCHANGED <<envVars, priceVars, marketVars, sendVars>>

SpecMarket == InitMarket /\ [][NextMarket]_vars

InitSend ==
    /\ PRIVATE_KEY \in {Undefined, Some("0xdefault")}
    /\ sendBody \in SendBodies
    /\ CMC_API_KEY = ""
    /\ GEMINI_API_KEY = ""
    /\ cgPrice = CGEmpty
    /\ cgMarket = CGEmpty
    /\ cmcQuote = CMCEmpty
    /\ gemini = GeminiReply("resolve", "", "noCandidates", "")
    /\ AllIdle

NextSend ==
    \/ SendRequest /\ UNCHANGED <<envVars, priceVars, marketVars, analyzeVars>>
    \/ SendTransactionSettles /\ UNCHANGED <<envVars, priceVars, marketVars, analyzeVars>>
    \/ WaitSettles /\ UNCHANGED <<envVars, priceVars, marketVars, analyzeVars>>

SpecSend == InitSend /\ [][NextSend]_vars

----------------------------------------------------------------------------
(* Properties of GET /eth-price (under SpecPrice) *)

\* The providers a request asks: CoinMarketCap only with a key.
Configured == IF CMC_API_KEY # "" THEN {"coinmarketcap", "coingecko"} ELSE {"coingecko"}

\* A provider delivers a price: its reply resolves and carries a usable price.
DeliversPrice(src) ==
    IF src = "coingecko"
    THEN cgPrice.kind = "resolve" /\ cgPrice.hasEthereum
         /\ IsDefined(cgPrice.usd) /\ cgPrice.usd[1] > 0
    ELSE cmcQuote.kind = "resolve" /\ cmcQuote.hasETH /\ cmcQuote.hasQuote
         /\ IsDefined(cmcQuote.price) /\ cmcQuote.price[1] > 0

Succeeded == {src \in Configured : DeliversPrice(src)}
Failed    == Configured \ Succeeded

\* C2: when every configured provider fails to deliver a price (by a thrown
\* error, a timeout or a reply with no usable price), the response is 503 and
\* its errors list has as many entries as there are configured providers.
C2_AllFail503 ==
    (pricePc = "responded" /\ Succeeded = {}) =>
        /\ Len(priceRes) = 1
        /\ priceRes[1].status = 503
        /\ Len(priceRes[1].body.errors) = Cardinality(Configured)

\* C3: when at least one configured provider succeeds, the response is 200,
\* its prices map has exactly the keys of the providers that succeeded and
\* its errors list has exactly one message per provider that failed.
C3_PartialSuccess200 ==
    (pricePc = "responded" /\ Succeeded # {}) =>
        /\ Len(priceRes) = 1
        /\ priceRes[1].status = 200
        /\ DOMAIN priceRes[1].body.prices = Succeeded
        /\ Len(priceRes[1].body.errors) = Cardinality(Failed)

\* C4: the response of /eth-price is composed and sent only after every
\* lookup that was started has settled, in every order of settling: once the
\* request is running every configured lookup is pending or settled (none is
\* skipped or cancelled by the other's outcome), each settles once, and a
\* response exists only when all of them have settled.
C4_JoinBeforeRespond ==
    /\ Len(priceRes) <= 1
    /\ pricePc # "idle" =>
          /\ {pricePromises[i] : i \in 1..Len(pricePromises)} = Configured
          /\ \A src \in Configured : lookup[src] \in {"pending", "settled"}
    /\ \A src \in Sources :
          Cardinality({i \in 1..Len(settled) : settled[i] = src})
              = (IF lookup[src] = "settled" THEN 1 ELSE 0)
    /\ priceRes # << >> =>
          /\ \A src \in Configured : lookup[src] = "settled"
          /\ Len(settled) = Cardinality(Configured)

\* The first lookup to settle failed, the second delivered, and the response
\* was sent after both.
C4_Witness ==
    /\ pricePc = "responded"
    /\ priceRes # << >>
    /\ settled = <<"coingecko", "coinmarketcap">>
    /\ cgPrice.kind = "reject"
    /\ DeliversPrice("coinmarketcap")
    /\ priceRes[1].status = 200

----------------------------------------------------------------------------
(* Properties of GET /eth-market and GET /eth-market-analyze (under        *)
(* SpecMarket)                                                             *)

\* A provider succeeds: its reply resolves with the asset's data and a
\* timestamp that converts to an instant.
CgSucceeds  == cgMarket.kind = "resolve" /\ cgMarket.hasEthereum
               /\ IsDefined(cgMarket.last_updated_at)
CmcSucceeds == cmcQuote.kind = "resolve" /\ cmcQuote.hasETH /\ cmcQuote.hasQuote
               /\ IsDefined(cmcQuote.last_updated)

\* C1: /eth-market asks coingecko first, then coinmarketcap only with a key
\* and only after coingecko failed, and stops at the first success: if
\* coingecko succeeds the response's source is "coingecko" and coinmarketcap
\* is never asked; if coingecko fails and coinmarketcap succeeds the source
\* is "coinmarketcap".
C1_OrderedFallback ==
    /\ marketCalls \in {<< >>, <<"coingecko">>, <<"coingecko", "coinmarketcap">>}
    /\ Len(marketCalls) = 2 => (CMC_API_KEY # "" /\ ~CgSucceeds)
    /\ Len(marketRes) <= 1
    /\ marketPc = "responded" =>
          /\ Len(marketRes) = 1
          /\ CgSucceeds =>
                /\ marketRes[1].status = 200
                /\ marketRes[1].body.source = "coingecko"
                /\ marketCalls = <<"coingecko">>
          /\ (~CgSucceeds /\ CMC_API_KEY # "" /\ CmcSucceeds) =>
                /\ marketRes[1].status = 200
                /\ marketRes[1].body.source = "coinmarketcap"
                /\ marketCalls = <<"coingecko", "coinmarketcap">>

\* coingecko failed, coinmarketcap was asked second and its snapshot was sent.
C1_Witness ==
    /\ marketPc = "responded"
    /\ ~CgSucceeds
    /\ marketCalls = <<"coingecko", "coinmarketcap">>
    /\ marketRes[1].status = 200
    /\ marketRes[1].body.source = "coinmarketcap"

\* The error entries a source can contribute.
ErrorsOf(src) ==
    IF src = "coingecko"
    THEN {"CoinGecko: " \o m : m \in AxiosErrors \cup {InvalidTime}}
    ELSE {"CoinMarketCap: " \o m : m \in AxiosErrors \cup {InvalidTime, NoUSD}}

\* C8: /eth-market answers 503 exactly when coingecko failed and
\* coinmarketcap failed too or was not configured, and the 503's errors list
\* has one entry for each source attempted, in attempt order.
C8_Unavailable503 ==
    marketPc = "responded" =>
        /\ Len(marketRes) = 1
        /\ marketRes[1].status = 503
              <=> (~CgSucceeds /\ (CMC_API_KEY = "" \/ ~CmcSucceeds))
        /\ marketRes[1].status = 503 =>
              /\ Len(marketRes[1].body.errors) = Len(marketCalls)
              /\ \A i \in 1..Len(marketCalls) :
                    marketRes[1].body.errors[i] \in ErrorsOf(marketCalls[i])

\* The snapshot chain of /eth-market-analyze has ended.
SnapshotPhaseDone == analyzePc \in {"awaitGemini", "responded"}
ProviderCalls(calls) == SelectSeq(calls, LAMBDA c : c # "gemini")

\* C10: on the same provider outcomes and key configuration, the snapshot
\* chain of /eth-market-analyze asks the same providers in the same order as
\* /eth-market, obtains a snapshot exactly when /eth-market answers 200,
\* that snapshot is /eth-market's body field for field, and otherwise both
\* answer 503 with the same errors list.
C10_SameChain ==
    (marketPc = "responded" /\ SnapshotPhaseDone) =>
        /\ ProviderCalls(analyzeCalls) = marketCalls
        /\ marketRes[1].status = 200 <=> IsDefined(marketData)
        /\ marketRes[1].status = 200 => marketData[1] = marketRes[1].body
        /\ marketRes[1].status # 200 =>
              /\ marketRes[1].status = 503
              /\ analyzePc = "responded"
              /\ Len(analyzeRes) = 1
              /\ analyzeRes[1].status = 503
              /\ analyzeRes[1].body.errors = marketRes[1].body.errors

\* Both handlers fell back to coinmarketcap and hold the same snapshot.
C10_Witness ==
    /\ marketPc = "responded"
    /\ SnapshotPhaseDone
    /\ marketCalls = <<"coingecko", "coinmarketcap">>
    /\ IsDefined(marketData)
    /\ marketData[1].source = "coinmarketcap"
    /\ marketRes[1].body = marketData[1]

\* The request of /eth-market-analyze ended with a snapshot and no Gemini key.
NoKeyCase ==
    /\ analyzePc = "responded"
    /\ IsDefined(marketData)
    /\ GEMINI_API_KEY = ""

GenerationFailure ==
    IF ~IsDefined(marketData) \/ GEMINI_API_KEY = "" THEN Undefined
    ELSE IF IsDefined(PromptError(marketData[1])) THEN PromptError(marketData[1])
    ELSE IF gemini.kind = "reject" THEN Some(gemini.message)
    ELSE IF gemini.shape = "noParts" THEN Some(NoText)
    ELSE Undefined

\* C6: when the text-generation step fails, analysis.source is "fallback"
\* and the sentence follows price_change_24h: above 2% bullish, above 0 up
\* to 2% modest gain, above -2% up to 0 minor bearish, -2% or below notable
\* bearish.
C6_FallbackThresholds ==
    (analyzePc = "responded" /\ IsDefined(GenerationFailure)) =>
        LET analysis == analyzeRes[1].body.analysis
            change   == marketData[1].price_change_24h
            Is(sentence) == analysis.text = sentence \o Disclaimer
        IN  /\ analysis.source = Some("fallback")
            /\ IsDefined(change) =>
                  /\ change[1] > Pct(2) => Is(Bullish)
                  /\ (change[1] > Pct(0) /\ change[1] <= Pct(2)) => Is(ModestGain)
                  /\ (change[1] > Pct(-2) /\ change[1] <= Pct(0)) => Is(MinorBearish)
                  /\ change[1] <= Pct(-2) => Is(NotableBearish)

\* A change of 3.5% and a rejected Gemini request give the bullish sentence.
C6_Witness ==
    /\ analyzePc = "responded"
    /\ gemini.kind = "reject"
    /\ IsDefined(GenerationFailure)
    /\ marketData[1].price_change_24h = Some(7)
    /\ analyzeRes[1].body.analysis.text = Bullish \o Disclaimer

\* C7: once a snapshot is obtained, the endpoint answers 200 with the
\* snapshot whatever the text-generation step does, and on its failure with
\* the rule-based analysis and the failure's message.
C7_AnalysisNeverFails ==
    (analyzePc = "responded" /\ IsDefined(marketData)) =>
        /\ Len(analyzeRes) = 1
        /\ analyzeRes[1].status = 200
        /\ analyzeRes[1].body.market = marketData[1]
        /\ IsDefined(GenerationFailure) =>
              /\ analyzeRes[1].body.analysis =
                    Analysis(FallbackSentence(marketData[1].price_change_24h) \o Disclaimer,
                             Some("fallback"), Some("real-time-data"))
              /\ analyzeRes[1].body.error
                    = Some("Gemini API error: " \o GenerationFailure[1])

\* The prompt could not be built from the snapshot, and the answer is 200.
C7_Witness ==
    /\ analyzePc = "responded"
    /\ IsDefined(marketData)
    /\ GEMINI_API_KEY # ""
    /\ IsDefined(PromptError(marketData[1]))
    /\ analyzeRes[1].status = 200
    /\ IsDefined(analyzeRes[1].body.error)

----------------------------------------------------------------------------
(* Properties of POST /send (under SpecSend) *)

\* C9: a request broadcasts at most one transaction, answers {hash} only
\* after the broadcast and the wait for confirmation both succeeded, and
\* answers 400 with the error message when validation, signing, broadcast or
\* confirmation fails.
C9_SendOnce ==
    /\ Len(broadcast) <= 1
    /\ Len(sendRes) <= 1
    /\ sendPc = "responded" <=> Len(sendRes) = 1
    /\ sendRes # << >> =>
          /\ sendRes[1].status \in {200, 400}
          /\ sendRes[1].status = 200 <=> txWait = "resolved"
          /\ sendRes[1].status = 200 =>
                /\ Len(broadcast) = 1
                /\ sendRes[1].body = [hash |-> broadcast[1].hash]
          /\ sendRes[1].status = 400 =>
                sendRes[1].body.error \in
                    {"invalid private key", "invalid value", "invalid address"}
                        \cup SendErrors \cup WaitErrors
    /\ txWait # "none" => Len(broadcast) = 1

\* A 400 answered after the transaction was broadcast.
C9_Witness ==
    /\ sendRes # << >>
    /\ sendRes[1].status = 400
    /\ Len(broadcast) = 1

=============================================================================
